---- MODULE Spec2Model ----
(***************************************************************************)
(* Travel-point reconciliation (scripts/sync-travel-points.mjs).           *)
(*                                                                         *)
(* A JavaScript string is modelled as the sequence of its characters, a    *)
(* character being a one-letter TLA+ string; a non-ASCII character is      *)
(* written by its code point ("U+00ED" is i with acute accent).  The JS    *)
(* values null and undefined of a string-typed field are both the value    *)
(* Null (the code treats them alike wherever such a field is read).        *)
(***************************************************************************)
EXTENDS Integers, Sequences, FiniteSets, TLC

(***************************************************************************)
(* Characters and the String.prototype methods the script uses.            *)
(***************************************************************************)
Null == <<"NULL">>

UpperLetters ==
  <<"A","B","C","D","E","F","G","H","I","J","K","L","M",
    "N","O","P","Q","R","S","T","U","V","W","X","Y","Z">>

LowerLetters ==
  <<"a","b","c","d","e","f","g","h","i","j","k","l","m",
    "n","o","p","q","r","s","t","u","v","w","x","y","z">>

DigitChars == {"0","1","2","3","4","5","6","7","8","9"}

UpperSet == {UpperLetters[i] : i \in DOMAIN UpperLetters}

LowerSet == {LowerLetters[i] : i \in DOMAIN LowerLetters}

LetterIndex(c, table) == CHOOSE i \in DOMAIN table : table[i] = c

toLowerCaseChar(c) ==
  IF c \in UpperSet THEN LowerLetters[LetterIndex(c, UpperLetters)]
  ELSE IF c = "U+00CD" THEN "U+00ED"
  ELSE c

toUpperCaseChar(c) ==
  IF c \in LowerSet THEN UpperLetters[LetterIndex(c, LowerLetters)]
  ELSE IF c = "U+00ED" THEN "U+00CD"
  ELSE c

toLowerCase(s) == [i \in DOMAIN s |-> toLowerCaseChar(s[i])]

toUpperCase(s) == [i \in DOMAIN s |-> toUpperCaseChar(s[i])]

IsSpace(c) == c = " "

RECURSIVE trimStart(_)
trimStart(s) ==
  IF s # <<>> /\ IsSpace(Head(s)) THEN trimStart(Tail(s)) ELSE s

RECURSIVE trimEnd(_)
trimEnd(s) ==
  IF s # <<>> /\ IsSpace(s[Len(s)]) THEN trimEnd(SubSeq(s, 1, Len(s) - 1)) ELSE s

trim(s) == trimEnd(trimStart(s))

RECURSIVE Concat(_)
Concat(ss) == IF ss = <<>> THEN <<>> ELSE Head(ss) \o Concat(Tail(ss))

\* s.split(sep) for a one-character separator: always at least one segment.
RECURSIVE split(_, _)
split(s, sep) ==
  IF \E i \in DOMAIN s : s[i] = sep
  THEN LET i == CHOOSE k \in DOMAIN s : s[k] = sep /\ \A j \in 1..(k - 1) : s[j] # sep
       IN  <<SubSeq(s, 1, i - 1)>> \o split(SubSeq(s, i + 1, Len(s)), sep)
  ELSE <<s>>

\* parts.join(sep)
RECURSIVE join(_, _)
join(parts, sep) ==
  IF parts = <<>> THEN <<>>
  ELSE IF Len(parts) = 1 THEN parts[1]
  ELSE parts[1] \o sep \o join(Tail(parts), sep)

\* typeof v === 'string' && v, and `v || ''`: Null and '' are both falsy.
Truthy(s) == s # Null /\ s # <<>>

StrOrEmpty(s) == IF s = Null THEN <<>> ELSE s

(***************************************************************************)
(* stripDiacritics, slugify, splitCamel                                    *)
(***************************************************************************)
\* NFKD decomposition followed by removal of U+0300..U+036F.
stripDiacriticsChar(c) ==
  IF c = "U+00ED" THEN "i"
  ELSE IF c = "U+00CD" THEN "I"
  ELSE IF c = "U+00E3" THEN "a"
  ELSE IF c = "U+00E9" THEN "e"
  ELSE c

stripDiacritics(value) ==
  LET v == StrOrEmpty(value) IN [i \in DOMAIN v |-> stripDiacriticsChar(v[i])]

IsSlugChar(c) == c \in LowerSet \/ c \in DigitChars

RECURSIVE stripDashes(_)
stripDashes(s) ==
  IF s # <<>> /\ Head(s) = "-" THEN stripDashes(Tail(s))
  ELSE IF s # <<>> /\ s[Len(s)] = "-" THEN stripDashes(SubSeq(s, 1, Len(s) - 1))
  ELSE s

slugify(value) ==
  LET ascii  == stripDiacritics(value)
      lower  == toLowerCase(ascii)
      amp    == Concat([i \in DOMAIN lower |->
                   IF lower[i] = "&" THEN <<" ","a","n","d"," ">> ELSE <<lower[i]>>])
      dashed == Concat([i \in DOMAIN amp |->
                   IF IsSlugChar(amp[i]) THEN <<amp[i]>>
                   ELSE IF i > 1 /\ ~IsSlugChar(amp[i - 1]) THEN <<>>
                   ELSE <<"-">>])
  IN  trim(stripDashes(dashed))

splitCamel(token) ==
  Concat([i \in DOMAIN token |->
     IF i > 1 /\ token[i - 1] \in LowerSet /\ token[i] \in UpperSet
     THEN <<" ", token[i]>> ELSE <<token[i]>>])

(***************************************************************************)
(* normalizeCityKey (components/map/WorldMap.tsx): the key under which the *)
(* map compares the cities of travel points.                               *)
(***************************************************************************)
normalizeCityKey(value) ==
  LET raw    == toLowerCase(trim(StrOrEmpty(value)))
      ascii  == stripDiacritics(raw)
      amp    == Concat([i \in DOMAIN ascii |->
                   IF ascii[i] = "&" THEN <<" ","a","n","d"," ">> ELSE <<ascii[i]>>])
      spaced == Concat([i \in DOMAIN amp |->
                   IF IsSlugChar(amp[i]) THEN <<amp[i]>>
                   ELSE IF i > 1 /\ ~IsSlugChar(amp[i - 1]) THEN <<>>
                   ELSE <<" ">>])
      normalized == trim(spaced)
  IN  IF raw = <<>> THEN <<>>
      ELSE IF normalized = <<"l","i","s","b","o","a">> THEN <<"l","i","s","b","o","n">>
      ELSE normalized

(***************************************************************************)
(* parsePlaceFromPublicId                                                  *)
(***************************************************************************)
NoPlace == [countryCode |-> Null, city |-> Null]

\* A faulty alias table: no legacy code is replaced.
countryAliasesNone(raw) == raw

countryAliases(raw) ==
  IF raw = <<"K","O">> THEN <<"K","R">>
  ELSE IF raw = <<"U","K">> THEN <<"G","B">>
  ELSE raw

\* /^[A-Z]{2}$/
IsCountryCode(cc) == Len(cc) = 2 /\ cc[1] \in UpperSet /\ cc[2] \in UpperSet

\* replace(/[-]+/g, ' ') then replace(/\s+/g, ' ')
collapseTo(s, seps, rep) ==
  Concat([i \in DOMAIN s |->
     IF s[i] \notin seps THEN <<s[i]>>
     ELSE IF i > 1 /\ s[i - 1] \in seps THEN <<>>
     ELSE <<rep>>])

\* A faulty parser: a two-token name CC_suffix gives the suffix as the city.
parsePlaceSuffixAsCity(publicId) ==
  LET segs  == split(StrOrEmpty(publicId), "/")
      base  == segs[Len(segs)]
      parts == SelectSeq(split(base, "_"), LAMBDA p : p # <<>>)
  IN  IF Len(parts) < 2 \/ ~IsCountryCode(countryAliases(toUpperCase(trim(parts[1]))))
      THEN NoPlace
      ELSE [countryCode |-> countryAliases(toUpperCase(trim(parts[1]))),
            city |-> parts[2]]

parsePlaceFromPublicId(publicId) ==
  LET segs  == split(StrOrEmpty(publicId), "/")
      base  == segs[Len(segs)]
      parts == SelectSeq(split(base, "_"), LAMBDA p : p # <<>>)
  IN  IF Len(parts) < 2 THEN NoPlace
      ELSE
        LET rawCountryCode == toUpperCase(trim(parts[1]))
            countryCode    == countryAliases(rawCountryCode)
            hi             == IF Len(parts) - 1 > 1 THEN Len(parts) - 1 ELSE 1
            rawCityParts   == SubSeq(parts, 2, hi)
            joined         == join([i \in DOMAIN rawCityParts |-> splitCamel(rawCityParts[i])], <<" ">>)
            city           == trim(collapseTo(collapseTo(joined, {"-"}, " "), {" "}, " "))
        IN  IF ~IsCountryCode(countryCode) THEN NoPlace
            ELSE IF rawCityParts = <<>> THEN NoPlace
            ELSE IF city = <<>> THEN NoPlace
            ELSE [countryCode |-> countryCode, city |-> city]

(***************************************************************************)
(* getCountryName, normalizeKey, toTravelPointId, safeNumber               *)
(***************************************************************************)
\* Intl.DisplayNames(['en'], {type: 'region'}).of(code): the English name, or
\* the code itself for a well-formed code without a name (fallback 'code').
getCountryName(countryCode) ==
  LET code == toUpperCase(countryCode)
  IN  IF code = <<"F","R">> THEN <<"F","r","a","n","c","e">>
      ELSE IF code = <<"D","E">> THEN <<"G","e","r","m","a","n","y">>
      ELSE IF code = <<"P","T">> THEN <<"P","o","r","t","u","g","a","l">>
      ELSE IF code = <<"I","T">> THEN <<"I","t","a","l","y">>
      ELSE code

normalizeKey(countryCode, city) ==
  LET slug == slugify(city)
  IN  toUpperCase(countryCode) \o <<":">> \o
      [i \in DOMAIN slug |-> IF slug[i] = "-" THEN " " ELSE slug[i]]

toTravelPointId(countryCode, city) ==
  toLowerCase(countryCode) \o <<"-">> \o slugify(city)

(***************************************************************************)
(* A stored coordinate is a JSON value: a finite number (k = "num"), null, *)
(* absent (k = "undef") or a non-numeric string (k = "nan").  A working    *)
(* coordinate of the run is a finite number or null.                       *)
(***************************************************************************)
Num(n) == [k |-> "num", v |-> n]

NullCoord == [k |-> "null", v |-> 0]

UndefCoord == [k |-> "undef", v |-> 0]

NanCoord == [k |-> "nan", v |-> 0]

\* Number(value): Number(null) is 0, Number(undefined) and Number('abc') are NaN.
Number(value) ==
  IF value.k = "num" THEN value
  ELSE IF value.k = "null" THEN Num(0)
  ELSE NanCoord

IsFinite(value) == value.k = "num"

safeNumber(value) ==
  LET n == Number(value) IN IF IsFinite(n) THEN n ELSE NullCoord

(***************************************************************************)
(* TravelPoint records, resources of the media host, Map objects.          *)
(***************************************************************************)
Point(id, city, countryCode, countryName, lat, lng, postcardId, description, sourceFolder) ==
  [id |-> id, city |-> city, countryCode |-> countryCode, countryName |-> countryName,
   lat |-> lat, lng |-> lng, postcardId |-> postcardId, description |-> description,
   sourceFolder |-> sourceFolder]

\* The value of a failed Map lookup (undefined): every field of it reads undefined.
NoPoint == Point(Null, Null, Null, Null, UndefCoord, UndefCoord, Null, Null, Null)

Resource(publicId, placeId, desc) ==
  [public_id |-> publicId, placeId |-> placeId, desc |-> desc, tags |-> {}]

\* The resource with the tags given.
Tagged(r, tags) == [r EXCEPT !.tags = tags]

\* A Map keyed by strings is a function on the set of its keys.
EmptyMap == <<>>

MapHas(m, k) == k \in DOMAIN m

MapGet(m, k) == IF k \in DOMAIN m THEN m[k] ELSE NoPoint

MapSet(m, k, v) == [x \in (DOMAIN m) \cup {k} |-> IF x = k THEN v ELSE m[x]]

\* byId is a Map whose insertion order is read at the end (Array.from(byId.values())):
\* the sequence of its values, each under the key of its own id.
ByIdHas(byId, id) == \E n \in DOMAIN byId : byId[n].id = id

ByIdGet(byId, id) ==
  IF ByIdHas(byId, id) THEN byId[CHOOSE n \in DOMAIN byId : byId[n].id = id] ELSE NoPoint

\* A faulty Map.set: a second set of the same key adds a second entry.
ByIdSetAppend(byId, p) == Append(byId, p)

ByIdSet(byId, p) ==
  IF ByIdHas(byId, p.id)
  THEN [n \in DOMAIN byId |-> IF byId[n].id = p.id THEN p ELSE byId[n]]
  ELSE Append(byId, p)

(***************************************************************************)
(* main, lines 225-246: the five indexes over the registry read from disk. *)
(***************************************************************************)
folderKeyOf(folderArg) == toLowerCase(trim(StrOrEmpty(folderArg)))

EmptyIndex ==
  [byId |-> <<>>, byPostcardId |-> EmptyMap, byCountryCity |-> EmptyMap,
   byCityInFolder |-> EmptyMap, cityKeyCountsInFolder |-> EmptyMap]

CountOf(counts, key) == IF key \in DOMAIN counts THEN counts[key] ELSE 0

\* A faulty index construction: only byId is filled.
IndexPointIdOnly(ix, p, folderKey) ==
  [ix EXCEPT !.byId = IF Truthy(p.id) THEN ByIdSet(ix.byId, p) ELSE ix.byId]

IndexPoint(ix, p, folderKey) ==
  LET cc   == IF p.countryCode # Null THEN toUpperCase(trim(p.countryCode)) ELSE <<>>
      city == IF p.city # Null THEN trim(p.city) ELSE <<>>
      src  == IF p.sourceFolder # Null THEN toLowerCase(trim(p.sourceFolder)) ELSE <<>>
      key  == slugify(city)
      inFolder == src # <<>> /\ src = folderKey /\ city # <<>>
  IN  [byId |-> IF Truthy(p.id) THEN ByIdSet(ix.byId, p) ELSE ix.byId,
       byPostcardId |->
         IF Truthy(p.postcardId) THEN MapSet(ix.byPostcardId, p.postcardId, p)
         ELSE ix.byPostcardId,
       byCountryCity |->
         IF cc # <<>> /\ city # <<>>
         THEN MapSet(ix.byCountryCity, cc \o <<":">> \o slugify(city), p)
         ELSE ix.byCountryCity,
       cityKeyCountsInFolder |->
         IF inFolder
         THEN [x \in (DOMAIN ix.cityKeyCountsInFolder) \cup {key} |->
                 IF x = key THEN CountOf(ix.cityKeyCountsInFolder, key) + 1
                 ELSE ix.cityKeyCountsInFolder[x]]
         ELSE ix.cityKeyCountsInFolder,
       byCityInFolder |->
         IF inFolder /\ ~MapHas(ix.byCityInFolder, key)
         THEN MapSet(ix.byCityInFolder, key, p)
         ELSE ix.byCityInFolder]

RECURSIVE BuildIndex(_, _, _)
BuildIndex(points, folderKey, ix) ==
  IF points = <<>> THEN ix
  ELSE BuildIndex(Tail(points), folderKey, IndexPoint(ix, Head(points), folderKey))

(***************************************************************************)
(* main, lines 281-290: the match of a resource and the id of its point.   *)
(***************************************************************************)
IsPoint(p) == p # NoPoint

FirstPoint(candidates) ==
  IF \E n \in DOMAIN candidates : IsPoint(candidates[n])
  THEN candidates[CHOOSE n \in DOMAIN candidates :
         IsPoint(candidates[n]) /\ \A m \in 1..(n - 1) : ~IsPoint(candidates[m])]
  ELSE NoPoint

matchExisting(placeIdFromMeta, publicId, countryCode, city, ix) ==
  LET cityKey == slugify(city)
  IN  FirstPoint(<<
        IF Truthy(placeIdFromMeta) THEN ByIdGet(ix.byId, placeIdFromMeta) ELSE NoPoint,
        MapGet(ix.byPostcardId, publicId),
        MapGet(ix.byCountryCity, countryCode \o <<":">> \o slugify(city)),
        IF CountOf(ix.cityKeyCountsInFolder, cityKey) = 1
        THEN MapGet(ix.byCityInFolder, cityKey) ELSE NoPoint >>)

choosePointId(placeIdFromMeta, existing, countryCode, city) ==
  IF Truthy(placeIdFromMeta) THEN placeIdFromMeta
  ELSE IF IsPoint(existing) /\ existing.id # Null THEN existing.id
  ELSE toTravelPointId(countryCode, city)

(***************************************************************************)
(* main, lines 325-366: the updated point and the created point.           *)
(***************************************************************************)
isAutoFromSameFolder(existing, folderKey) ==
  LET existingFolderKey ==
        IF existing.sourceFolder # Null THEN toLowerCase(trim(existing.sourceFolder)) ELSE <<>>
  IN  existingFolderKey # <<>> /\ existingFolderKey = folderKey

updatedPoint(existing, id, city, countryCode, countryName, lat, lng, publicId, descFromMeta, folderArg) ==
  LET auto == isAutoFromSameFolder(existing, folderKeyOf(folderArg))
  IN  Point(
        id,
        IF auto THEN city ELSE IF Truthy(existing.city) THEN existing.city ELSE city,
        toUpperCase(IF auto THEN countryCode
                    ELSE IF Truthy(existing.countryCode) THEN existing.countryCode
                    ELSE countryCode),
        IF auto
        THEN (IF countryName # Null THEN countryName ELSE existing.countryName)
        ELSE (IF existing.countryName # Null THEN existing.countryName ELSE countryName),
        lat,
        lng,
        IF auto THEN publicId
        ELSE IF Truthy(existing.postcardId) THEN existing.postcardId ELSE publicId,
        IF existing.description # Null THEN existing.description
        ELSE IF Truthy(descFromMeta) THEN descFromMeta ELSE Null,
        folderArg)

\* A faulty create branch: the point is stored without its provenance.
createdPointNoFolder(id, city, countryCode, countryName, lat, lng, publicId, descFromMeta, folderArg) ==
  Point(id, city, countryCode, countryName, lat, lng, publicId,
        IF descFromMeta # <<>> THEN descFromMeta ELSE Null, Null)

createdPoint(id, city, countryCode, countryName, lat, lng, publicId, descFromMeta, folderArg) ==
  Point(id, city, countryCode, countryName, lat, lng, publicId,
        IF Truthy(descFromMeta) THEN descFromMeta ELSE Null, folderArg)

\* lines 344-347 and 361-364: the four Map.set calls after an update or a create.
reindex(ix, next) ==
  [byId |-> ByIdSet(ix.byId, next),
   byPostcardId |-> MapSet(ix.byPostcardId, next.postcardId, next),
   byCountryCity |->
     MapSet(ix.byCountryCity, next.countryCode \o <<":">> \o slugify(next.city), next),
   byCityInFolder |-> MapSet(ix.byCityInFolder, slugify(next.city), next),
   cityKeyCountsInFolder |-> ix.cityKeyCountsInFolder]

(***************************************************************************)
(* The geocode cache (a JSON object) and the answer of the geocoder.       *)
(***************************************************************************)
CacheEntry(lat, lng, city, countryCode) ==
  [lat |-> lat, lng |-> lng, city |-> city, countryCode |-> countryCode]

\* cached && Number.isFinite(Number(cached.lat)) && Number.isFinite(Number(cached.lng))
\* A run that never finds its cache entries.
cacheValidNever(cache, key) == FALSE

cacheValid(cache, key) ==
  /\ key \in DOMAIN cache
  /\ IsFinite(Number(cache[key].lat))
  /\ IsFinite(Number(cache[key].lng))

\* geocode() returns null (not ok, no result, malformed) or {lat, lng}.
NoHit == [ok |-> FALSE, lat |-> NullCoord, lng |-> NullCoord]

Hit(lat, lng) == [ok |-> TRUE, lat |-> Num(lat), lng |-> Num(lng)]

\* What the geocoding service answers: res.ok, and the body as res.json()
\* reads it: text that is no JSON, a JSON object, or a JSON array of results.
\* A field of a result is a number or a numeric string (Num), a string that
\* is no number (NanCoord), null (NullCoord) or absent (UndefCoord).
Response(ok, kind, items) == [ok |-> ok, kind |-> kind, items |-> items]

Result(lat, lon) == [lat |-> lat, lon |-> lon]

\* line 194: res.json() rejects, nothing catches it before main().catch
geocodeThrows(response) == response.ok /\ response.kind = "text"

\* lines 193-203
geocode(response) ==
  IF ~response.ok THEN NoHit
  ELSE IF response.kind # "array" \/ response.items = <<>> THEN NoHit
  ELSE LET lat == Number(response.items[1].lat)
           lng == Number(response.items[1].lon)
       IN  IF ~IsFinite(lat) \/ ~IsFinite(lng) THEN NoHit
           ELSE [ok |-> TRUE, lat |-> lat, lng |-> lng]

(***************************************************************************)
(* main, lines 257-367: one iteration of the loop over the resources.      *)
(* st holds the loop's variables, hit the answer the geocoder gives if it  *)
(* is asked during this iteration.  st.trace records, per iteration, the   *)
(* iteration's locals publicId, existing and id and how it ended.          *)
(***************************************************************************)
needsGeocode(st, r, noGeocode) ==
  LET publicId == r.public_id
      parsed   == parsePlaceFromPublicId(publicId)
      placeIdFromMeta == IF r.placeId # Null THEN trim(r.placeId) ELSE <<>>
      existing == matchExisting(placeIdFromMeta, publicId, parsed.countryCode, parsed.city, st.ix)
      lat      == safeNumber(existing.lat)
      lng      == safeNumber(existing.lng)
  IN  /\ Truthy(publicId)
      /\ parsed # NoPlace
      /\ ~(IsFinite(lat) /\ IsFinite(lng))
      /\ ~noGeocode
      /\ ~cacheValid(st.cache, normalizeKey(parsed.countryCode, parsed.city))

\* lines 263-265: a metadata field, trimmed, '' when it is no string.
metaOf(field) == IF field # Null THEN trim(field) ELSE <<>>

\* lines 277-279: cityConflicts.get(cityKey).push({ publicId, countryCode })
addConflict(cityConflicts, cityKey, publicId, countryCode) ==
  IF \E n \in DOMAIN cityConflicts : cityConflicts[n].cityKey = cityKey
  THEN [n \in DOMAIN cityConflicts |->
          IF cityConflicts[n].cityKey = cityKey
          THEN [cityConflicts[n] EXCEPT
                  !.entries = Append(@, [publicId |-> publicId,
                                         countryCode |-> countryCode])]
          ELSE cityConflicts[n]]
  ELSE Append(cityConflicts,
              [cityKey |-> cityKey,
               entries |-> <<[publicId |-> publicId, countryCode |-> countryCode]>>])

\* line 292
countryNameOf(countryCode, existing) ==
  LET name0 == getCountryName(countryCode)
  IN  IF Truthy(name0) THEN name0 ELSE existing.countryName

\* lines 294-317: the existing point's coordinates, else the cache, else the
\* geocoder (hit is its answer, read only when it is asked).
resolveCoordinates(existing, cache, key, hit, noGeocode) ==
  LET lat0      == safeNumber(existing.lat)
      lng0      == safeNumber(existing.lng)
      lookup    == ~(IsFinite(lat0) /\ IsFinite(lng0)) /\ ~noGeocode
      fromCache == lookup /\ cacheValid(cache, key)
      asked     == lookup /\ ~fromCache
      geoOk     == asked /\ hit.ok
  IN  [lat   |-> IF fromCache THEN Number(cache[key].lat)
                 ELSE IF geoOk THEN hit.lat ELSE lat0,
       lng   |-> IF fromCache THEN Number(cache[key].lng)
                 ELSE IF geoOk THEN hit.lng ELSE lng0,
       asked |-> asked,
       geoOk |-> geoOk]

\* lines 305-313: the request to the geocoding service, and the sleep(1100)
\* that follows an answer with coordinates.
networkLog(net, asked, geoOk) ==
  IF ~asked THEN net
  ELSE IF geoOk THEN net \o <<"geocode", "sleep">>
  ELSE Append(net, "geocode")

\* What one iteration did: the resource, the point it matched, the id it
\* chose, how it ended, and whether the geocoder resolved its place.
traceStep(publicId, existing, id, outcome, key, geocoded) ==
  [publicId |-> publicId, existing |-> existing, id |-> id, outcome |-> outcome,
   key |-> key, geocoded |-> geocoded]

\* lines 319-366: skip without coordinates, else update or create.
storeResource(st, r, folderArg, countryCode, city, existing, id, countryName, coords, key) ==
  LET publicId == r.public_id
      warn1    == IF coords.asked /\ ~coords.geoOk
                  THEN Append(st.warnings,
                         [kind |-> "geocode", publicId |-> publicId, key |-> key])
                  ELSE st.warnings
      net1     == networkLog(st.net, coords.asked, coords.geoOk)
  IN  IF ~(IsFinite(coords.lat) /\ IsFinite(coords.lng))
      THEN [st EXCEPT !.publicIdsInFolder = @ \cup {publicId},
                      !.cityConflicts = addConflict(@, slugify(city), publicId, countryCode),
                      !.warnings = warn1,
                      !.net = net1,
                      !.skipped = @ + 1,
                      !.trace = Append(@, traceStep(publicId, existing, id, "skipped",
                                                    key, coords.geoOk))]
      ELSE [st EXCEPT !.publicIdsInFolder = @ \cup {publicId},
                      !.cityConflicts = addConflict(@, slugify(city), publicId, countryCode),
                      !.warnings = warn1,
                      !.net = net1,
                      !.cache = IF coords.geoOk
                                THEN [x \in (DOMAIN @) \cup {key} |->
                                        IF x = key
                                        THEN CacheEntry(coords.lat, coords.lng, city,
                                                        countryCode)
                                        ELSE @[x]]
                                ELSE @,
                      !.geocoded = IF coords.geoOk THEN @ + 1 ELSE @,
                      !.ix = reindex(@,
                               IF IsPoint(existing)
                               THEN updatedPoint(existing, id, city, countryCode,
                                                 countryName, coords.lat, coords.lng,
                                                 publicId, metaOf(r.desc), folderArg)
                               ELSE createdPoint(id, city, countryCode, countryName,
                                                 coords.lat, coords.lng, publicId,
                                                 metaOf(r.desc), folderArg)),
                      !.updated = IF IsPoint(existing) THEN @ + 1 ELSE @,
                      !.added = IF IsPoint(existing) THEN @ ELSE @ + 1,
                      !.trace = Append(@, traceStep(publicId, existing, id,
                                                    IF IsPoint(existing) THEN "updated"
                                                    ELSE "added",
                                                    key, coords.geoOk))]

\* lines 290-323: the id, the country name and the coordinates of a resource
\* whose match is known.
matchedResource(st, r, hit, noGeocode, folderArg, countryCode, city, existing) ==
  storeResource(st, r, folderArg, countryCode, city, existing,
                choosePointId(metaOf(r.placeId), existing, countryCode, city),
                countryNameOf(countryCode, existing),
                resolveCoordinates(existing, st.cache, normalizeKey(countryCode, city),
                                   hit, noGeocode),
                normalizeKey(countryCode, city))

\* lines 274-288: a resource whose identifier parsed.
parsedResource(st, r, hit, noGeocode, folderArg, countryCode, city) ==
  matchedResource(st, r, hit, noGeocode, folderArg, countryCode, city,
                  matchExisting(metaOf(r.placeId), r.public_id, countryCode, city, st.ix))

\* A faulty loop body: a resource whose identifier does not parse is warned
\* about but not counted.
processResourceUncounted(st, r, hit, noGeocode, folderArg) ==
  IF ~Truthy(r.public_id)
  THEN [st EXCEPT !.trace = Append(@, traceStep(r.public_id, NoPoint, Null, "noid",
                                                <<>>, FALSE))]
  ELSE IF parsePlaceFromPublicId(r.public_id) = NoPlace
  THEN [st EXCEPT !.publicIdsInFolder = @ \cup {r.public_id},
                  !.warnings = Append(@, [kind |-> "parse", publicId |-> r.public_id,
                                          key |-> <<>>]),
                  !.trace = Append(@, traceStep(r.public_id, NoPoint, Null, "unparsed",
                                                <<>>, FALSE))]
  ELSE parsedResource(st, r, hit, noGeocode, folderArg,
                      parsePlaceFromPublicId(r.public_id).countryCode,
                      parsePlaceFromPublicId(r.public_id).city)

\* lines 257-367: the body of the loop.
processResource(st, r, hit, noGeocode, folderArg) ==
  IF ~Truthy(r.public_id)
  THEN [st EXCEPT !.trace = Append(@, traceStep(r.public_id, NoPoint, Null, "noid",
                                                <<>>, FALSE))]
  ELSE IF parsePlaceFromPublicId(r.public_id) = NoPlace
  THEN [st EXCEPT !.publicIdsInFolder = @ \cup {r.public_id},
                  !.skipped = @ + 1,
                  !.warnings = Append(@, [kind |-> "parse", publicId |-> r.public_id,
                                          key |-> <<>>]),
                  !.trace = Append(@, traceStep(r.public_id, NoPoint, Null, "unparsed",
                                                <<>>, FALSE))]
  ELSE parsedResource(st, r, hit, noGeocode, folderArg,
                      parsePlaceFromPublicId(r.public_id).countryCode,
                      parsePlaceFromPublicId(r.public_id).city)

(***************************************************************************)
(* main, lines 369-379: the conflict warnings.                             *)
(***************************************************************************)
\* A faulty test: any two resources of a city are taken for a conflict.
hasConflictAnyTwo(entry) == Len(entry.entries) >= 2

hasConflict(entry) ==
  /\ Len(entry.entries) >= 2
  /\ Cardinality({entry.entries[n].countryCode : n \in DOMAIN entry.entries}) > 1

conflictWarnings(cityConflicts) ==
  LET hits == SelectSeq(cityConflicts, hasConflict)
  IN  [n \in DOMAIN hits |->
         [kind |-> "conflict", publicId |-> hits[n].entries[1].publicId,
          key |-> hits[n].cityKey]]

(***************************************************************************)
(* main, lines 381-413: the two prune filters and the sort.                *)
(***************************************************************************)
\* A faulty first filter: a same-batch point without postcardId is dropped too.
keepAfterPruneNoCard(p, prune, folderKey, publicIdsInFolder) ==
  LET src == IF p.sourceFolder # Null THEN toLowerCase(trim(p.sourceFolder)) ELSE <<>>
      pid == IF p.postcardId # Null THEN trim(p.postcardId) ELSE <<>>
  IN  IF ~prune THEN TRUE
      ELSE IF src = <<>> \/ src # folderKey THEN TRUE
      ELSE pid \in publicIdsInFolder

keepAfterPrune(p, prune, folderKey, publicIdsInFolder) ==
  LET src == IF p.sourceFolder # Null THEN toLowerCase(trim(p.sourceFolder)) ELSE <<>>
      pid == IF p.postcardId # Null THEN trim(p.postcardId) ELSE <<>>
  IN  IF ~prune THEN TRUE
      ELSE IF src = <<>> \/ src # folderKey THEN TRUE
      ELSE IF pid = <<>> THEN TRUE
      ELSE pid \in publicIdsInFolder

keepLegacy(p, prune, publicIdsInFolder, byCityInFolder) ==
  LET src  == IF p.sourceFolder # Null THEN toLowerCase(trim(p.sourceFolder)) ELSE <<>>
      pid  == IF p.postcardId # Null THEN trim(p.postcardId) ELSE <<>>
      city == IF p.city # Null THEN trim(p.city) ELSE <<>>
      replacement == MapGet(byCityInFolder, slugify(city))
  IN  IF ~prune THEN TRUE
      ELSE IF src # <<>> THEN TRUE
      ELSE IF pid = <<>> THEN TRUE
      ELSE IF pid \in publicIdsInFolder THEN TRUE
      ELSE IF city = <<>> THEN TRUE
      ELSE IF ~IsPoint(replacement) THEN TRUE
      ELSE IF replacement.id = p.id THEN TRUE
      ELSE FALSE

\* String.prototype.localeCompare on the characters of the model: the primary
\* weight of a character is that of its base letter (space before punctuation
\* before digits before letters); at equal primary weights an accent, then an
\* upper case letter, sorts later.  With {sensitivity: 'base'} only the
\* primary weights count.
baseLetter(c) == toLowerCaseChar(stripDiacriticsChar(c))

primaryWeight(c) ==
  LET b == baseLetter(c)
  IN  IF b \in LowerSet THEN 100 + LetterIndex(b, LowerLetters)
      ELSE IF b \in DigitChars THEN 50 + (CHOOSE d \in 0..9 : ToString(d) = b)
      ELSE IF b = " " THEN 1
      ELSE 10

accentWeight(c) == IF stripDiacriticsChar(c) # c THEN 1 ELSE 0

caseWeight(c) == IF stripDiacriticsChar(c) \in UpperSet THEN 1 ELSE 0

RECURSIVE lexCompare(_, _)
lexCompare(x, y) ==
  IF x = <<>> /\ y = <<>> THEN 0
  ELSE IF x = <<>> THEN -1
  ELSE IF y = <<>> THEN 1
  ELSE IF Head(x) < Head(y) THEN -1
  ELSE IF Head(x) > Head(y) THEN 1
  ELSE lexCompare(Tail(x), Tail(y))

localeCompareBase(a, b) ==
  lexCompare([n \in DOMAIN a |-> primaryWeight(a[n])], [n \in DOMAIN b |-> primaryWeight(b[n])])

localeCompare(a, b) ==
  LET primary == localeCompareBase(a, b)
      accents == lexCompare([n \in DOMAIN a |-> accentWeight(a[n])],
                            [n \in DOMAIN b |-> accentWeight(b[n])])
  IN  IF primary # 0 THEN primary
      ELSE IF accents # 0 THEN accents
      ELSE lexCompare([n \in DOMAIN a |-> caseWeight(a[n])],
                      [n \in DOMAIN b |-> caseWeight(b[n])])

comparePoints(a, b) ==
  LET cc == localeCompare(StrOrEmpty(a.countryCode), StrOrEmpty(b.countryCode))
  IN  IF cc # 0 THEN cc
      ELSE localeCompareBase(StrOrEmpty(a.city), StrOrEmpty(b.city))

\* Array.prototype.sort is stable: an element goes after every element that
\* does not compare greater than it.
insertSorted(sorted, p) ==
  LET before == SelectSeq(sorted, LAMBDA q : comparePoints(q, p) <= 0)
      after  == SelectSeq(sorted, LAMBDA q : comparePoints(q, p) > 0)
  IN  before \o <<p>> \o after

RECURSIVE sortPoints(_, _)
sortPoints(pts, sorted) ==
  IF pts = <<>> THEN sorted ELSE sortPoints(Tail(pts), insertSorted(sorted, Head(pts)))

buildOut(byId, prune, folderKey, publicIdsInFolder, byCityInFolder) ==
  LET kept1 == SelectSeq(byId, LAMBDA p : keepAfterPrune(p, prune, folderKey, publicIdsInFolder))
      kept2 == SelectSeq(kept1, LAMBDA p : keepLegacy(p, prune, publicIdsInFolder, byCityInFolder))
  IN  sortPoints(kept2, <<>>)

(***************************************************************************)
(* The values the model draws its inputs from.                             *)
(***************************************************************************)
FR == <<"F","R">>

DE == <<"D","E">>

PT == <<"P","T">>

Paris == <<"P","a","r","i","s">>

ParisAccent == <<"P","a","r","U+00ED","s">>

ParisNord == <<"P","a","r","i","s"," ","N","o","r","d">>

Porto == <<"P","o","r","t","o">>

Countries == <<"C","o","u","n","t","r","i","e","s">>

countriesLower == <<"c","o","u","n","t","r","i","e","s">>

Other == <<"O","t","h","e","r">>

PublicId(countryCode, city, suffix) == countryCode \o <<"_">> \o city \o <<"_">> \o suffix

\* Registry points as a maintainer or an earlier run may have left them.
ManualParis ==
  Point(<<"p","1">>, ParisAccent, FR, <<"F","r">>, Num(48), Num(2),
        PublicId(FR, Paris, <<"z">>), <<"d">>, Other)

LegacyParis ==
  Point(<<"f","r","-","p","a","r","i","s">>, Paris, FR, Null, Num(48), Num(2),
        PublicId(FR, Paris, <<"z">>), Null, Null)

LegacyPorto ==
  Point(<<"p","t","-","p","o","r","t","o">>, Porto, PT, Null, NullCoord, UndefCoord,
        Null, Null, Null)

AutoParisDE ==
  Point(<<"d","e","-","p","a","r","i","s">>, Paris, DE, <<"G","e","r","m","a","n","y">>,
        Num(52), Num(13), PublicId(DE, Paris, <<"c">>), Null, Countries)

AutoPortoStale ==
  Point(<<"p","t","-","p","o","r","t","o">>, Porto, PT, <<"P","o","r","t","u","g","a","l">>,
        Num(41), Num(-8), PublicId(PT, Porto, <<"z">>), Null, Countries)

AutoPortoNoCard ==
  Point(<<"x","1">>, Porto, PT, Null, Num(41), Num(-8), Null, Null, countriesLower)

AutoPortoE ==
  Point(<<"p","t","-","p","o","r","t","o">>, Porto, PT, <<"P","o","r","t","u","g","a","l">>,
        Num(41), Num(-8), PublicId(PT, Porto, <<"e">>), Null, Countries)

ManualParisNord ==
  Point(<<"f","r","-","p","a","r","i","s">>, ParisNord, FR, <<"F","r">>, Num(49), Num(2),
        Null, <<"d">>, Other)

\* Resources as the media host lists them.
ParisA == Resource(PublicId(FR, Paris, <<"a">>), Null, Null)

ParisB == Resource(PublicId(FR, Paris, <<"b">>), Null, <<"n">>)

ParisC == Resource(PublicId(DE, Paris, <<"c">>), Null, Null)

ParisD == Resource(PublicId(FR, Paris, <<"d">>), <<"x","9">>, Null)

PortoE == Resource(PublicId(PT, Porto, <<"e">>), Null, Null)

Unparsable == Resource(FR \o <<"_","q">>, Null, Null)

\* Registries of hand-curated and legacy points, with a folder of Paris images.
CuratedPoints == {ManualParis, LegacyParis, LegacyPorto, ManualParisNord}

CuratedResources == {ParisA, ParisB, ParisD, Unparsable}

\* Registries of points that earlier runs generated, with a folder that lost
\* and gained images.
GeneratedPoints == {AutoParisDE, AutoPortoStale, AutoPortoNoCard, LegacyParis}

GeneratedResources == {ParisA, ParisC, ParisD, PortoE}

\* The first run of a folder: no registry yet.
AllResources == {ParisA, ParisB, ParisC, ParisD, PortoE, Unparsable}

CandidateCaches ==
  {<<>>,
   [k \in {normalizeKey(FR, Paris)} |-> CacheEntry(Num(40), Num(3), Paris, FR)]}

\* What the geocoder answers when it finds the place.
GeocoderHit == Hit(50, 5)

\* The answers of the service: the place found, and not found.
Found == Response(TRUE, "array", <<Result(Num(50), Num(5))>>)

NotFound == Response(TRUE, "array", <<>>)

UsualResponses == {Found, NotFound}

\* Answers of every kind: an error status, a body that is no JSON, a JSON
\* object, results without lat and lon, with lat and lon that are no numbers,
\* and with lat and lon null.
AllResponses ==
  UsualResponses \cup
  {Response(FALSE, "text", <<>>), Response(TRUE, "text", <<>>),
   Response(TRUE, "object", <<>>),
   Response(TRUE, "array", <<Result(UndefCoord, UndefCoord)>>),
   Response(TRUE, "array", <<Result(NanCoord, Num(5))>>),
   Response(TRUE, "array", <<Result(NullCoord, NullCoord)>>)}

MaxPoints == 2

MaxResources == 2

MaxRuns == 2

SeqsUpTo(S, n) == UNION {[1..k -> S] : k \in 0..n}

RegistriesOf(candidates, n) ==
  {r \in SeqsUpTo(candidates, n) : \A a, b \in DOMAIN r : a # b => r[a].id # r[b].id}

BatchesOf(candidates, n) ==
  {b \in SeqsUpTo(candidates, n) :
     \A m, k \in DOMAIN b : m # k => b[m].public_id # b[k].public_id}

\* A registry that holds Lisbon under its English name, with a folder whose
\* images spell it either way.
Lisbon == <<"L","i","s","b","o","n">>

Lisboa == <<"L","i","s","b","o","a">>

AutoLisbon ==
  Point(<<"p","t","-","l","i","s","b","o","n">>, Lisbon, PT,
        <<"P","o","r","t","u","g","a","l">>, Num(38), Num(-9),
        PublicId(PT, Lisbon, <<"f">>), Null, Countries)

LisboaE == Resource(PublicId(PT, Lisboa, <<"e">>), Null, Null)

LisbonF == Resource(PublicId(PT, Lisbon, <<"f">>), Null, Null)

SpellingPoints == {AutoLisbon, AutoPortoNoCard}

SpellingResources == {LisboaE, LisbonF, PortoE}

\* Image names, well-formed and not: up to MaxTokens underscore-delimited
\* tokens (a code, two legacy codes, a camel-case city, a lone hyphen, an
\* empty token, a suffix of a letter and a digit), alone or in a folder path.
NameTokens ==
  {FR, <<"u","k">>, <<"K","O">>, <<"S","a","i","n","t","D","e","n","i","s">>,
   <<"-">>, <<>>, <<"x","7">>}

FolderPrefixes == {<<>>, <<"F","R","_","a","_","b","/">>}

MaxTokens == 3

NameOf(prefix, tokens) == prefix \o join(tokens, <<"_">>)

NamedForms == FolderPrefixes \X SeqsUpTo(NameTokens, MaxTokens)

NamedBatches == {<<Resource(NameOf(f[1], f[2]), Null, Null), ParisA>> : f \in NamedForms}

(***************************************************************************)
(* The state: the two files, the media host, and the locals of main().     *)
(***************************************************************************)
(***************************************************************************)
(* The command line (lines 12-42).  argv is a sequence of strings.         *)
(***************************************************************************)
startsWith(s, prefix) ==
  Len(s) >= Len(prefix) /\ SubSeq(s, 1, Len(prefix)) = prefix

slice(s, from) == SubSeq(s, from + 1, Len(s))

Dash == <<"-">>

FolderOpt == <<"-","-","f","o","l","d","e","r">>

WriteOpt == <<"-","-","w","r","i","t","e">>

DryRunOpt == <<"-","-","d","r","y","-","r","u","n">>

PruneOpt == <<"-","-","p","r","u","n","e">>

LimitOpt == <<"-","-","l","i","m","i","t">>

PointsOpt == <<"-","-","p","o","i","n","t","s">>

CacheOpt == <<"-","-","c","a","c","h","e">>

\* path.resolve('src', 'data', 'travel-points.json'), relative to the project
PointsDefault ==
  <<"s","r","c","/","d","a","t","a","/","t","r","a","v","e","l","-","p","o","i","n","t","s",
    ".","j","s","o","n">>

CacheDefault ==
  <<"s","r","c","/","d","a","t","a","/","g","e","o","c","o","d","e","-","c","a","c","h","e",
    ".","j","s","o","n">>

\* argv.find / argv.indexOf: the first of the positions given, 0 for none
FirstIndex(positions) ==
  IF positions = {} THEN 0
  ELSE CHOOSE i \in positions : \A j \in positions : i <= j

\* lines 14-23
readArg(argv, name, fallback) ==
  LET eq  == FirstIndex({i \in DOMAIN argv : startsWith(argv[i], name \o <<"=">>)})
      idx == FirstIndex({i \in DOMAIN argv : argv[i] = name})
      v   == IF idx + 1 \in DOMAIN argv THEN argv[idx + 1] ELSE Null
  IN  IF eq >= 1 THEN slice(argv[eq], Len(name) + 1)
      ELSE IF idx >= 1
           THEN IF Truthy(v) /\ ~startsWith(v, Dash) THEN v ELSE fallback
           ELSE fallback

\* lines 25-27
hasFlag(argv, name) == \E i \in DOMAIN argv : argv[i] = name

\* line 29
folderArgOf(argv) ==
  LET found == FirstIndex({i \in DOMAIN argv : ~startsWith(argv[i], Dash)})
  IN  readArg(argv, FolderOpt,
              IF found >= 1 /\ Truthy(argv[found]) THEN argv[found] ELSE Countries)

DigitValue(c) == CHOOSE d \in 0..9 : <<"0","1","2","3","4","5","6","7","8","9">>[d + 1] = c

RECURSIVE DigitsValue(_)
DigitsValue(s) ==
  IF s = <<>> THEN 0 ELSE 10 * DigitsValue(SubSeq(s, 1, Len(s) - 1)) + DigitValue(s[Len(s)])

\* lines 34-39; -1 stands for null.  Number(raw) of a string of decimal digits
\* is its value; the other strings given here as a limit are not numbers.
limitOf(argv) ==
  LET raw == readArg(argv, LimitOpt, Null)
  IN  IF ~Truthy(raw) THEN -1
      ELSE IF \A i \in DOMAIN raw : raw[i] \in DigitChars THEN DigitsValue(raw)
      ELSE -1

\* lines 29-42: the constants of a run
commandLine(argv) ==
  [argv       |-> argv,
   folderArg  |-> folderArgOf(argv),
   write      |-> hasFlag(argv, WriteOpt),
   dryRunFlag |-> hasFlag(argv, DryRunOpt),
   pruneFlag  |-> hasFlag(argv, PruneOpt),
   limit      |-> limitOf(argv),
   pointsPath |-> readArg(argv, PointsOpt, PointsDefault),
   cachePath  |-> readArg(argv, CacheOpt, CacheDefault)]

\* line 71: ... AND -tags=hidden
matchesExpression(r) == "hidden" \notin r.tags

\* lines 58-93: the listing of the folder the run asks for; the media host
\* holds images in the folder Countries only.
fetchAll(folderArg, host) ==
  IF folderArg = Countries THEN SelectSeq(host, matchesExpression) ELSE <<>>

\* The command lines of the usual runs.
UsualCommandLines == {<<>>, <<WriteOpt>>, <<PruneOpt>>, <<WriteOpt, DryRunOpt>>}

\* Command lines that name no folder, or name Countries, with other options.
One == <<"1">>

OptionCommandLines ==
  {<<>>, <<WriteOpt>>, <<LimitOpt, One>>, <<LimitOpt \o <<"=">> \o One>>,
   <<WriteOpt, LimitOpt, One>>, <<PruneOpt, LimitOpt \o <<"=">> \o One>>,
   <<PointsOpt, PointsDefault, WriteOpt>>, <<CacheOpt \o <<"=">> \o CacheDefault>>,
   <<Countries, WriteOpt>>, <<FolderOpt, Countries, LimitOpt, One>>,
   <<FolderOpt \o <<"=">> \o Countries, PruneOpt>>}

VARIABLES
  pointsFile,   \* src/data/travel-points.json
  cacheFile,    \* src/data/geocode-cache.json
  mediaHost,    \* the images of the folder, in the order the search returns them
  commandLines, \* the command lines the runs are started with
  service,      \* the answers the geocoding service gives
  startPoints,  \* the registry before the first run
  noGeocode,    \* --no-geocode, given to every run or to none
  pc,           \* "idle", "loop" (inside the for loop), "done" (main returned),
                \* "exit" (process.exit(1)), "killed" (terminated in the loop)
  runs,         \* how many runs were started
  args,         \* the flags of the current run
  points,       \* the registry this run read
  picked,       \* the resources this run processes
  cursor,       \* index in picked of the next resource
  st,           \* the loop's locals: ix (the five indexes), cache, counters, ...;
                \* trace and net record what the iterations did
  out,          \* the final array
  prev          \* what the previous run did (its flags, output ids, counters)

vars ==
  <<pointsFile, cacheFile, mediaHost, commandLines, service, startPoints, noGeocode, pc, runs, args,
    points, picked, cursor, st, out, prev>>

\* The constants of the command lines a run is started with.
ArgChoices == {commandLine(argv) : argv \in commandLines}

\* line 31, as if --dry-run were not read
dryRunIgnoringFlag(a) == ~a.write

\* line 31
dryRunOf(a) == a.dryRunFlag \/ ~a.write

pruneOf(a) == a.pruneFlag \/ a.write

\* lines 248-255
FreshLocals(ix, cache) ==
  [ix |-> ix, cache |-> cache, added |-> 0, updated |-> 0, geocoded |-> 0, skipped |-> 0,
   warnings |-> <<>>, publicIdsInFolder |-> {}, cityConflicts |-> <<>>, trace |-> <<>>,
   net |-> <<>>]

NoPrev ==
  [valid |-> FALSE, args |-> commandLine(<<>>), points |-> <<>>, out |-> <<>>,
   geocoded |-> 0, warnings |-> <<>>, skipped |-> 0]

PointIds(pts) == {pts[n].id : n \in DOMAIN pts}

InitAll(registries, batches, caches, lines, responses) ==
  /\ pointsFile \in registries
  /\ cacheFile \in caches
  /\ mediaHost \in batches
  /\ commandLines = lines
  /\ service = responses
  /\ startPoints = pointsFile
  /\ noGeocode \in BOOLEAN
  /\ pc = "idle"
  /\ runs = 0
  /\ args = commandLine(<<>>)
  /\ points = <<>>
  /\ picked = <<>>
  /\ cursor = 1
  /\ st = FreshLocals(EmptyIndex, <<>>)
  /\ out = <<>>
  /\ prev = NoPrev

InitWith(registries, batches, caches, lines) ==
  InitAll(registries, batches, caches, lines, UsualResponses)

InitFrom(registries, batches, caches) ==
  InitWith(registries, batches, caches, UsualCommandLines)

Init ==
  InitFrom(RegistriesOf(CuratedPoints, MaxPoints), BatchesOf(CuratedResources, MaxResources),
           CandidateCaches)

InitGenerated ==
  InitFrom(RegistriesOf(GeneratedPoints, MaxPoints),
           BatchesOf(GeneratedResources, MaxResources), CandidateCaches)

InitEmpty == InitFrom({<<>>}, BatchesOf(AllResources, MaxResources + 1), CandidateCaches)

\* lines 215-255: fetch the listing, read the two files, build the indexes.
\* A run is started on the files as they are; a run after a run that wrote
\* nothing would start from the very same files, so it is not started again.
CanStart ==
  /\ pc = "idle" \/ (pc = "done" /\ ~dryRunOf(args))
  /\ runs < MaxRuns

\* lines 44-49: a credential is missing from the environment.
MissingCredentials ==
  /\ CanStart
  /\ \E a \in ArgChoices : args' = a
  /\ pc' = "exit"
  /\ UNCHANGED <<pointsFile, cacheFile, mediaHost, commandLines, service, startPoints, noGeocode,
                 runs, points, picked, cursor, st, out, prev>>

\* lines 74-93, 439-442: the search throws, main rejects.
FetchFails ==
  /\ CanStart
  /\ \E a \in ArgChoices : args' = a
  /\ pc' = "exit"
  /\ runs' = runs + 1
  /\ UNCHANGED <<pointsFile, cacheFile, mediaHost, commandLines, service, startPoints, noGeocode,
                 points, picked, cursor, st, out, prev>>

StartRun ==
  /\ CanStart
  /\ \E a \in ArgChoices :
       /\ args' = a
       /\ picked' = LET resources == fetchAll(a.folderArg, mediaHost)
                    IN  IF a.limit >= 0 /\ a.limit < Len(resources)
                        THEN SubSeq(resources, 1, a.limit) ELSE resources
       /\ st' = FreshLocals(BuildIndex(pointsFile, folderKeyOf(a.folderArg), EmptyIndex),
                            cacheFile)
  /\ points' = pointsFile
  /\ cursor' = 1
  /\ out' = <<>>
  /\ runs' = runs + 1
  /\ prev' = IF pc = "done"
             THEN [valid |-> TRUE, args |-> args, points |-> points, out |-> out,
                   geocoded |-> st.geocoded, warnings |-> st.warnings,
                   skipped |-> st.skipped]
             ELSE NoPrev
  /\ pc' = "loop"
  /\ UNCHANGED <<pointsFile, cacheFile, mediaHost, commandLines, service, startPoints, noGeocode>>

\* lines 257-367: one resource.
ProcessResource ==
  /\ pc = "loop"
  /\ cursor <= Len(picked)
  /\ \E response \in (IF needsGeocode(st, picked[cursor], noGeocode)
                      THEN service ELSE {NotFound}) :
       IF needsGeocode(st, picked[cursor], noGeocode) /\ geocodeThrows(response)
       THEN /\ pc' = "exit"
            /\ UNCHANGED <<st, cursor>>
       ELSE /\ st' = processResource(st, picked[cursor], geocode(response), noGeocode,
                                     args.folderArg)
            /\ cursor' = cursor + 1
            /\ pc' = pc
  /\ UNCHANGED <<pointsFile, cacheFile, mediaHost, commandLines, service, startPoints,
                 noGeocode, runs, args, points, picked, out, prev>>

\* lines 369-436: conflict warnings, the output array, the report, the write.
Finish ==
  /\ pc = "loop"
  /\ cursor > Len(picked)
  /\ LET result == buildOut(st.ix.byId, pruneOf(args), folderKeyOf(args.folderArg),
                            st.publicIdsInFolder, st.ix.byCityInFolder)
     IN  /\ out' = result
         /\ st' = [st EXCEPT !.warnings = @ \o conflictWarnings(st.cityConflicts)]
         /\ IF dryRunOf(args)
            THEN UNCHANGED <<pointsFile, cacheFile>>
            ELSE pointsFile' = result /\ cacheFile' = st.cache
  /\ pc' = "done"
  /\ UNCHANGED <<mediaHost, commandLines, service, startPoints, noGeocode, runs, args, points, picked, cursor,
                 prev>>

\* The process is terminated, or a geocoding request throws (lines 191, 304),
\* while the loop runs.
Terminate ==
  /\ pc = "loop"
  /\ pc' = "killed"
  /\ UNCHANGED <<pointsFile, cacheFile, mediaHost, commandLines, service, startPoints, noGeocode,
                 runs, args, points, picked, cursor, st, out, prev>>

Next ==
  MissingCredentials \/ FetchFails \/ StartRun \/ ProcessResource \/ Terminate \/ Finish

Spec == Init /\ [][Next]_vars

SpecGenerated == InitGenerated /\ [][Next]_vars

SpecEmpty == InitEmpty /\ [][Next]_vars

InitSpellings ==
  InitFrom(RegistriesOf(SpellingPoints, MaxPoints),
           BatchesOf(SpellingResources, MaxResources), CandidateCaches)

SpecSpellings == InitSpellings /\ [][Next]_vars

\* Runs with --write of a folder that holds an image of any name, and
\* FR_Paris_a, from no registry.
InitNames == InitWith({<<>>}, NamedBatches, {<<>>}, {<<WriteOpt>>})

\* Runs started with options of every kind.
InitOptions ==
  InitWith(RegistriesOf({AutoPortoNoCard, AutoPortoE}, MaxPoints),
           BatchesOf({ParisA, PortoE}, MaxResources), CandidateCaches, OptionCommandLines)

SpecNames == InitNames /\ [][Next]_vars

SpecOptions == InitOptions /\ [][Next]_vars

\* Registries that hold points of before sourceFolder was stored, next to
\* points generated for the folder.
LegacyPoints == {LegacyPorto, LegacyParis, AutoPortoNoCard, AutoParisDE}

InitLegacy ==
  InitFrom(RegistriesOf(LegacyPoints, MaxPoints), BatchesOf({ParisC, PortoE}, MaxResources),
           CandidateCaches)

SpecLegacy == InitLegacy /\ [][Next]_vars

\* A folder with an image tagged hidden, and registries that hold the point
\* an earlier run generated for it.
PortoHidden == Tagged(PortoE, {"hidden"})

InitHidden ==
  InitFrom(RegistriesOf({AutoPortoE, AutoParisDE}, MaxPoints),
           BatchesOf({PortoHidden, ParisA, ParisC}, MaxResources), CandidateCaches)

SpecHidden == InitHidden /\ [][Next]_vars

\* First runs against a geocoding service that gives answers of every kind.
InitService ==
  InitAll({<<>>}, BatchesOf({ParisA, ParisC, PortoE}, MaxResources), {<<>>},
          UsualCommandLines, AllResponses)

SpecService == InitService /\ [][Next]_vars

\* Registry points for Porto whose stored coordinates are null, half null,
\* absent, or text that is no number.
PortoNull ==
  Point(<<"p","t","-","p","o","r","t","o">>, Porto, PT, Null, NullCoord, NullCoord,
        Null, Null, Null)

PortoHalfNull ==
  Point(<<"p","t","-","p","o","r","t","o">>, Porto, PT, Null, NullCoord, Num(-8),
        Null, Null, Null)

PortoText ==
  Point(<<"p","t","-","p","o","r","t","o">>, Porto, PT, Null, NanCoord, NanCoord,
        Null, Null, Null)

AbsentCoordinatePoints == {PortoNull, PortoHalfNull, PortoText, LegacyPorto}

InitCoordinates ==
  InitFrom(RegistriesOf(AbsentCoordinatePoints, MaxPoints),
           BatchesOf({PortoE, ParisA}, MaxResources), CandidateCaches)

SpecCoordinates == InitCoordinates /\ [][Next]_vars

(***************************************************************************)
(* Vocabulary of the properties.                                           *)
(***************************************************************************)
folderKey == folderKeyOf(args.folderArg)

srcKey(p) == IF p.sourceFolder # Null THEN toLowerCase(trim(p.sourceFolder)) ELSE <<>>

cityKeyOf(p) == slugify(IF p.city # Null THEN trim(p.city) ELSE <<>>)

\* (countryCode, normalized city) of a point, as the byCountryCity index keys it.
placeKey(p) == toUpperCase(trim(StrOrEmpty(p.countryCode))) \o <<":">> \o cityKeyOf(p)

\* (countryCode, normalized city) a resource parses to.
parsedKey(r) ==
  LET place == parsePlaceFromPublicId(r.public_id)
  IN  place.countryCode \o <<":">> \o slugify(place.city)

Parses(r) == parsePlaceFromPublicId(r.public_id) # NoPlace

HostIds == {mediaHost[n].public_id : n \in DOMAIN mediaHost}

Elems(seq) == {seq[n] : n \in DOMAIN seq}

Finished == pc = "done"

\* The geocoder is the same in both runs: a place it did not resolve for the
\* previous run it does not resolve for this one.
SameGeocoder ==
  \A w \in Elems(prev.warnings) : \A step \in Elems(st.trace) :
    (w.kind = "geocode" /\ step.geocoded) => step.key # w.key

\* The second of two runs over the same folder, the first of which started
\* from an empty registry and wrote its output.
SecondRun ==
  /\ Finished
  /\ prev.valid
  /\ prev.points = <<>>
  /\ points = prev.out

RerunOnOwnOutput == SecondRun /\ SameGeocoder

(***************************************************************************)
(* C1. As claimed, idempotent re-run: the second run over the output of a  *)
(* first run from an empty registry (same resources, label, cache and      *)
(* geocoder, pruning on or off) ends with the same set of point ids as the *)
(* first and reports added = 0.                                            *)
(***************************************************************************)
IdempotentRerun ==
  RerunOnOwnOutput =>
    /\ PointIds(out) = PointIds(prev.out)
    /\ st.added = 0

(***************************************************************************)
(* C2. As claimed: in the re-run of C1, updated equals the number of       *)
(* points of the output.                                                   *)
(***************************************************************************)
UpdatedEqualsPointCount == RerunOnOwnOutput => st.updated = Len(out)

(***************************************************************************)
(* C2, amended. In the re-run of C1, updated equals the number of          *)
(* resources with an identifier that were not skipped, one per resource    *)
(* and not one per point, so that it is at least the number of points.     *)
(***************************************************************************)
UpdatedCountsResources ==
  RerunOnOwnOutput =>
    /\ st.updated + st.skipped = Cardinality({n \in DOMAIN picked : Truthy(picked[n].public_id)})
    /\ st.updated >= Len(out)

UpdatedCountsResourcesWitness ==
  /\ RerunOnOwnOutput
  /\ Len(out) >= 1
  /\ st.updated > Len(out)
  /\ st.skipped >= 1

(***************************************************************************)
(* C3. As claimed: a point curated under another provenance in the         *)
(* starting registry never has its city, countryCode, countryName or       *)
(* postcardId overwritten, in any run of any sequence of runs.  Stated for *)
(* the curated points whose id no resource of the folder would be given,   *)
(* so that every later version of the point comes from a match.            *)
(***************************************************************************)
Versions(id) == {q \in Elems(pointsFile) \cup Elems(out) : q.id = id}

GeneratedIds ==
  {toTravelPointId(parsePlaceFromPublicId(r.public_id).countryCode,
                   parsePlaceFromPublicId(r.public_id).city) :
     r \in {x \in Elems(mediaHost) : Parses(x)}}

CuratedElsewhere(p) ==
  /\ p.sourceFolder # Null
  /\ srcKey(p) # <<>>
  /\ srcKey(p) # folderKeyOf(Countries)
  /\ p.id \notin GeneratedIds

CuratedPointNeverOverwritten ==
  \A p \in Elems(startPoints) :
    CuratedElsewhere(p) =>
      \A q \in Versions(p.id) :
        /\ q.city = p.city
        /\ q.countryCode = p.countryCode
        /\ q.countryName = p.countryName
        /\ q.postcardId = p.postcardId

(***************************************************************************)
(* C4. As claimed: an input point is absent from the output only if        *)
(* pruning is on and either (i) its input sourceFolder is the batch label  *)
(* and its postcardId is not an identifier of the batch, or (ii) it has no *)
(* sourceFolder and a different same-batch point exists for its city.      *)
(***************************************************************************)
SameBatchPoints ==
  {q \in Elems(st.ix.byId) \cup {st.ix.byCityInFolder[k] : k \in DOMAIN st.ix.byCityInFolder} :
     srcKey(q) = folderKey}

RemovedOnlyByPruning ==
  Finished =>
    \A p \in Elems(points) :
      p.id \notin PointIds(out) =>
        /\ pruneOf(args)
        /\ \/ srcKey(p) = folderKey /\ p.postcardId \notin HostIds
           \/ /\ srcKey(p) = <<>>
              /\ \E q \in SameBatchPoints : q.id # p.id /\ cityKeyOf(q) = cityKeyOf(p)

(***************************************************************************)
(* C5. As claimed: an input point with finite lat and lng that is still in *)
(* the output has the same lat and lng there.                              *)
(***************************************************************************)
CoordinatesNeverOverwritten ==
  Finished =>
    \A p \in Elems(points) : \A q \in Elems(out) :
      (q.id = p.id /\ IsFinite(p.lat) /\ IsFinite(p.lng)) =>
        (q.lat = p.lat /\ q.lng = p.lng)

(***************************************************************************)
(* C6. As claimed: every point of the output has finite numeric lat and    *)
(* lng.                                                                    *)
(***************************************************************************)
OutputHasCoordinates ==
  Finished => \A q \in Elems(out) : IsFinite(q.lat) /\ IsFinite(q.lng)

(***************************************************************************)
(* C7. No two points of the output of a run, nor of the registry file a    *)
(* run wrote, have the same id.                                            *)
(***************************************************************************)
UniqueIn(seq) == \A a, b \in DOMAIN seq : a # b => seq[a].id # seq[b].id

OutputIdsUnique == UniqueIn(out) /\ UniqueIn(pointsFile)

OutputIdsUniqueWitness ==
  /\ Finished
  /\ ~dryRunOf(args)
  /\ Len(out) >= 2
  /\ \E n \in DOMAIN st.trace :
       st.trace[n].outcome = "added" /\ st.trace[n].id \in PointIds(points)

(***************************************************************************)
(* C8. As claimed: no two output points share a (countryCode, normalized   *)
(* city) key unless both were in the input registry with that key.         *)
(***************************************************************************)
InInputWithKey(q) == \E p \in Elems(points) : p.id = q.id /\ placeKey(p) = placeKey(q)

NoNewDuplicatePlace ==
  Finished =>
    \A a, b \in DOMAIN out :
      (a # b /\ placeKey(out[a]) = placeKey(out[b])) =>
        (InInputWithKey(out[a]) /\ InInputWithKey(out[b]))

(***************************************************************************)
(* C9. With pruning on, the output holds no same-batch point whose         *)
(* non-empty postcardId is not an identifier of the batch's resources; a   *)
(* same-batch point without postcardId is kept; with pruning off, the      *)
(* output holds every point the run ended with.                            *)
(***************************************************************************)
HasCard(p) == p.postcardId # Null /\ trim(p.postcardId) # <<>>

StalePointsPruned ==
  Finished =>
    /\ pruneOf(args) =>
         \A q \in Elems(out) :
           ~(srcKey(q) = folderKey /\ HasCard(q) /\ q.postcardId \notin HostIds)
    /\ \A q \in Elems(st.ix.byId) \cup Elems(points) :
         (srcKey(q) = folderKey /\ ~HasCard(q)) => q.id \in PointIds(out)
    /\ ~pruneOf(args) => PointIds(out) = PointIds(st.ix.byId)

StalePointsPrunedWitness ==
  /\ Finished
  /\ pruneOf(args)
  /\ \E p \in Elems(points) :
       srcKey(p) = folderKey /\ HasCard(p) /\ p.postcardId \notin HostIds
       /\ p.id \notin PointIds(out)
  /\ \E q \in Elems(out) : srcKey(q) = folderKey /\ ~HasCard(q)

(***************************************************************************)
(* C10. As claimed: when two resources of the batch parse to the same      *)
(* (countryCode, normalized city) and neither is skipped, exactly one      *)
(* point of that place is in the output, and its postcardId is the         *)
(* identifier of the last of them when it has same-batch provenance.       *)
(* Stated for the runs that start from an empty registry.                  *)
(***************************************************************************)
Placed(n) == st.trace[n].outcome \in {"added", "updated"}

SamePlace(m, n) ==
  /\ m < n
  /\ Parses(picked[m])
  /\ Parses(picked[n])
  /\ parsedKey(picked[m]) = parsedKey(picked[n])
  /\ Placed(m)
  /\ Placed(n)

LastOfPlace(n) ==
  \A k \in DOMAIN picked : (k > n /\ Parses(picked[k])) => parsedKey(picked[k]) # parsedKey(picked[n])

OnePointPerPlace ==
  (Finished /\ points = <<>>) =>
    \A m, n \in DOMAIN picked :
      SamePlace(m, n) =>
        LET place == {q \in Elems(out) : placeKey(q) = parsedKey(picked[n])}
        IN  /\ Cardinality(place) = 1
            /\ st.trace[n].outcome = "updated"
            /\ LastOfPlace(n) =>
                 \A q \in place : srcKey(q) = folderKey => q.postcardId = picked[n].public_id

(***************************************************************************)
(* C11. As claimed: when two resources of the batch parse to the same      *)
(* normalized city with different country codes and both are placed, the   *)
(* output holds a point of that city for each of the two country codes.    *)
(* Stated for the runs without pruning, where no point leaves the output.  *)
(***************************************************************************)
parsedOf(r) == parsePlaceFromPublicId(r.public_id)

Ambiguous(m, n) ==
  /\ m # n
  /\ Parses(picked[m])
  /\ Parses(picked[n])
  /\ slugify(parsedOf(picked[m]).city) = slugify(parsedOf(picked[n]).city)
  /\ parsedOf(picked[m]).countryCode # parsedOf(picked[n]).countryCode
  /\ Placed(m)
  /\ Placed(n)

AmbiguousCityKeptApart ==
  (Finished /\ ~pruneOf(args)) =>
    \A m, n \in DOMAIN picked :
      Ambiguous(m, n) => \E q \in Elems(out) : placeKey(q) = parsedKey(picked[m])

(***************************************************************************)
(* C12. A step of the loop on a parsable resource that matches no point:   *)
(* when coordinates are resolved (geocoding not disabled, and the cache or *)
(* the geocoder has the place) the indexes gain exactly the point {id,     *)
(* city and countryCode as parsed, lat/lng of the cache entry or else of   *)
(* the geocoder, postcardId = the identifier, sourceFolder = the label}    *)
(* and added grows by one; otherwise no index changes and skipped grows    *)
(* by one.                                                                 *)
(***************************************************************************)
current == picked[cursor]

UnmatchedStep ==
  /\ pc = "loop"
  /\ cursor <= Len(picked)
  /\ cursor' = cursor + 1
  /\ Truthy(current.public_id)
  /\ Parses(current)
  /\ matchExisting(metaOf(current.placeId), current.public_id, parsedOf(current).countryCode,
                   parsedOf(current).city, st.ix) = NoPoint

lastStep(locals) == locals.trace[Len(locals.trace)]

UnmatchedOutcome ==
  LET place  == parsedOf(current)
      key    == normalizeKey(place.countryCode, place.city)
      cached == ~noGeocode /\ cacheValid(st.cache, key)
      id     == IF metaOf(current.placeId) # <<>> THEN metaOf(current.placeId)
                ELSE toTravelPointId(place.countryCode, place.city)
      made   == ByIdGet(st'.ix.byId, id)
  IN  IF ~noGeocode /\ (cached \/ lastStep(st').geocoded)
      THEN /\ st'.added = st.added + 1
           /\ st'.skipped = st.skipped
           /\ st'.updated = st.updated
           /\ ByIdHas(st'.ix.byId, id)
           /\ made.city = place.city
           /\ made.countryCode = place.countryCode
           /\ made.postcardId = current.public_id
           /\ made.sourceFolder = args.folderArg
           /\ made.lat = (IF cached THEN Number(st.cache[key].lat) ELSE GeocoderHit.lat)
           /\ made.lng = (IF cached THEN Number(st.cache[key].lng) ELSE GeocoderHit.lng)
           /\ IsFinite(made.lat) /\ IsFinite(made.lng)
           /\ Elems(st'.ix.byId) \subseteq Elems(st.ix.byId) \cup {made}
           /\ \A q \in Elems(st.ix.byId) : q.id # id => q \in Elems(st'.ix.byId)
      ELSE /\ st'.skipped = st.skipped + 1
           /\ st'.added = st.added
           /\ st'.updated = st.updated
           /\ st'.ix = st.ix

UnmatchedResourceCreatesOrSkips == [][UnmatchedStep => UnmatchedOutcome]_vars

\* A run has created a point from the cache, another from the geocoder, and
\* has skipped an unmatched resource the geocoder did not resolve.
UnmatchedResourceWitness ==
  /\ Finished
  /\ \E a, b, c \in DOMAIN st.trace :
       /\ st.trace[a].outcome = "added" /\ ~st.trace[a].geocoded
       /\ st.trace[b].outcome = "added" /\ st.trace[b].geocoded
       /\ st.trace[c].outcome = "skipped" /\ st.trace[c].existing = NoPoint
  /\ st.added = 2
  /\ st.skipped = 1
  /\ Len(out) = 2

(***************************************************************************)
(* Vocabulary of the naming convention: a name is written from a folder    *)
(* path and underscore-delimited tokens; its tokens are the non-empty ones.*)
(***************************************************************************)
TokensOf(tokens) == SelectSeq(tokens, LAMBDA t : t # <<>>)

NamedTable == {[name |-> NameOf(f[1], f[2]), tokens |-> TokensOf(f[2])] : f \in NamedForms}

\* The token sequences each name can be read as.
TokensByName ==
  [n \in {e.name : e \in NamedTable} |-> {e.tokens : e \in {x \in NamedTable : x.name = n}}]

ValidCodeTokens == {FR, <<"u","k">>, <<"K","O">>}

\* The uppercased code after alias resolution.
ExpectedCode(token) ==
  IF token = <<"u","k">> THEN <<"G","B">>
  ELSE IF token = <<"K","O">> THEN <<"K","R">>
  ELSE token

\* <CC>_<city tokens...>_<suffix>
Conventional(tokens) == Len(tokens) >= 3 /\ tokens[1] \in ValidCodeTokens

CityTokens(tokens) == SubSeq(tokens, 2, Len(tokens) - 1)

OnlyHyphens(tokens) == \A i \in DOMAIN tokens : tokens[i] = <<"-">>

ParsedAs(name, code) ==
  LET place == parsePlaceFromPublicId(name)
  IN  /\ place # NoPlace
      /\ "_" \notin Elems(place.city)
      /\ place.city # <<>>
      /\ place.countryCode = code

TheName == mediaHost[1].public_id

(***************************************************************************)
(* C13. As claimed: for every name of the form <CC>_<city tokens>_<suffix> *)
(* with a valid two-letter code, parse returns a candidate whose city has  *)
(* no underscore and whose countryCode is the uppercased code after alias  *)
(* resolution.                                                             *)
(***************************************************************************)
ConventionalNameParses ==
  \A tokens \in TokensByName[TheName] :
    Conventional(tokens) => ParsedAs(TheName, ExpectedCode(tokens[1]))

(***************************************************************************)
(* C13, amended. The same for the names of that form that have a city      *)
(* token with a character other than a hyphen; when every city token is    *)
(* made of hyphens the city is empty and parse returns null.               *)
(***************************************************************************)
NamedCityParses ==
  \A tokens \in TokensByName[TheName] :
    Conventional(tokens) =>
      IF OnlyHyphens(CityTokens(tokens))
      THEN parsePlaceFromPublicId(TheName) = NoPlace
      ELSE ParsedAs(TheName, ExpectedCode(tokens[1]))

\* A run has placed the image uk_SaintDenis_x7 as Saint Denis, GB.
NamedCityParsesWitness ==
  /\ Finished
  /\ TheName = NameOf(<<>>, <<<<"u","k">>, <<"S","a","i","n","t","D","e","n","i","s">>, <<"x","7">>>>)
  /\ \E q \in Elems(out) :
       /\ q.postcardId = TheName
       /\ q.countryCode = <<"G","B">>
       /\ q.city = <<"S","a","i","n","t"," ","D","e","n","i","s">>

(***************************************************************************)
(* C14. parse returns null for every name whose final path segment has     *)
(* fewer than two non-empty tokens, for every two-token name CC_suffix,    *)
(* and for every name whose first token is not two letters after alias     *)
(* resolution; the run counts that resource (when it has a name at all) as *)
(* skipped, records a cannot-parse warning for it, gives it no point and   *)
(* goes on with the next resource.                                         *)
(***************************************************************************)
Unconventional(tokens) ==
  \/ Len(tokens) < 2
  \/ Len(tokens) = 2
  \/ tokens[1] \notin ValidCodeTokens

SkippedUnparsed ==
  /\ st.trace[1].outcome = "unparsed"
  /\ \E n \in DOMAIN st.warnings :
       st.warnings[n].kind = "parse" /\ st.warnings[n].publicId = TheName
  /\ st.skipped =
       Cardinality({n \in DOMAIN st.trace : st.trace[n].outcome \in {"unparsed", "skipped"}})
  /\ st.added + st.updated + st.skipped = Len(st.trace)
  /\ \A q \in Elems(st.ix.byId) : q.postcardId # TheName

UnconventionalNameSkipped ==
  \A tokens \in TokensByName[TheName] :
    Unconventional(tokens) =>
      /\ parsePlaceFromPublicId(TheName) = NoPlace
      /\ (Truthy(TheName) /\ pc = "loop" /\ cursor > 1) => SkippedUnparsed
      /\ (Truthy(TheName) /\ Finished) =>
           /\ SkippedUnparsed
           /\ Len(st.trace) = Len(picked)
           /\ st.trace[2].outcome \in {"added", "updated", "skipped"}
           /\ \A q \in Elems(out) : q.postcardId = picked[2].public_id

\* A run skipped the two-token name FR_x7 in a folder path, then placed the
\* next image.
UnconventionalNameWitness ==
  /\ Finished
  /\ TheName = NameOf(<<"F","R","_","a","_","b","/">>, <<FR, <<"x","7">>>>)
  /\ st.skipped = 1
  /\ st.added = 1
  /\ Len(out) = 1

(***************************************************************************)
(* C15. As claimed: the city key maps Lisboa and lisbon to one key and     *)
(* Porto to another, so that a resource named with either spelling matches *)
(* the registry point of that country and city key: the first resource of  *)
(* a run that is placed matches the registry point that has its country    *)
(* code and its city key.                                                  *)
(***************************************************************************)
SameCity(place, p) ==
  /\ p.countryCode = place.countryCode
  /\ normalizeCityKey(p.city) = normalizeCityKey(place.city)

EitherSpellingMatches ==
  /\ normalizeCityKey(Lisboa) = normalizeCityKey(<<"l","i","s","b","o","n">>)
  /\ normalizeCityKey(Lisboa) # normalizeCityKey(Porto)
  /\ (Finished /\ picked # <<>> /\ Placed(1)) =>
       \A p \in Elems(points) :
         SameCity(parsedOf(picked[1]), p) => st.trace[1].existing.id = p.id

(***************************************************************************)
(* C16. The registry file and the cache file change only in the step that  *)
(* ends a run whose every resource has been processed and whose command    *)
(* line has --write and no --dry-run: the steps of a run that is           *)
(* terminated in the loop, fails to fetch the listing, misses its          *)
(* credentials or is a dry run leave both files as they were.              *)
(***************************************************************************)
FilesWritten == pointsFile' # pointsFile \/ cacheFile' # cacheFile

WholeBatchDone == pc = "loop" /\ cursor > Len(picked) /\ pc' = "done"

WritesOnlyAfterWholeBatch ==
  [][FilesWritten =>
       /\ WholeBatchDone
       /\ hasFlag(args.argv, WriteOpt)
       /\ ~hasFlag(args.argv, DryRunOpt)]_vars

\* A run with --write and --dry-run has finished: it computed a registry that
\* differs from the file, and the file is as the run read it.
WritesOnlyAfterWholeBatchWitness ==
  /\ pc = "done"
  /\ hasFlag(args.argv, WriteOpt) /\ hasFlag(args.argv, DryRunOpt)
  /\ st.added > 0
  /\ out # pointsFile
  /\ pointsFile = points

(***************************************************************************)
(* C17. As claimed: a run whose command line has no --folder option and no *)
(* positional folder argument works on the folder Countries, whatever      *)
(* other options and option values it has, and it prunes exactly when      *)
(* --write or --prune is present.                                          *)
(***************************************************************************)
ValueOptions == {LimitOpt, PointsOpt, CacheOpt}

IsOptionValue(argv, i) == i > 1 /\ argv[i - 1] \in ValueOptions

NamesNoFolder(argv) ==
  \A i \in DOMAIN argv :
    /\ argv[i] # FolderOpt
    /\ ~startsWith(argv[i], FolderOpt \o <<"=">>)
    /\ startsWith(argv[i], Dash) \/ IsOptionValue(argv, i)

DefaultFolderIsCountries ==
  pc # "idle" =>
    /\ NamesNoFolder(args.argv) => args.folderArg = Countries
    /\ pruneOf(args) <=> (hasFlag(args.argv, WriteOpt) \/ hasFlag(args.argv, PruneOpt))

(***************************************************************************)
(* C18. As claimed: a step of the loop whose resource matches a point that *)
(* the registry the run read holds under another provenance than the       *)
(* folder's, or under none, stores the point with the city, countryCode,   *)
(* countryName, postcardId and description the registry has for it; for    *)
(* every such step of the run.                                             *)
(***************************************************************************)
UpdateStep ==
  /\ pc = "loop"
  /\ cursor <= Len(picked)
  /\ cursor' = cursor + 1
  /\ Len(st'.trace) = Len(st.trace) + 1
  /\ lastStep(st').outcome = "updated"

ForeignFieldsKept ==
  \A p \in Elems(points) :
    (p.id = lastStep(st').existing.id /\ srcKey(p) # folderKey) =>
      LET stored == ByIdGet(st'.ix.byId, lastStep(st').id)
      IN  /\ stored.city = p.city
          /\ stored.countryCode = p.countryCode
          /\ stored.countryName = p.countryName
          /\ stored.postcardId = p.postcardId
          /\ stored.description = p.description

ForeignPointFieldsKept == [][UpdateStep => ForeignFieldsKept]_vars

(***************************************************************************)
(* C19. As claimed: a step of the loop on a parsable resource takes as its *)
(* match a point of the first probe that succeeds among (a) the points     *)
(* whose id is the resource's placeId, (b) the points whose postcardId is  *)
(* the resource's identifier, (c) the points of the parsed country code    *)
(* and normalized city, (d) the same-batch points of the parsed normalized *)
(* city, when there is exactly one; when no probe succeeds the resource    *)
(* has no match.  The points are the ones the run holds when the step is   *)
(* taken.                                                                  *)
(***************************************************************************)
MatchStep ==
  /\ pc = "loop"
  /\ cursor <= Len(picked)
  /\ cursor' = cursor + 1
  /\ Truthy(current.public_id)
  /\ Parses(current)

Held == Elems(st.ix.byId)

ProbeId == {p \in Held : Truthy(metaOf(current.placeId)) /\ p.id = metaOf(current.placeId)}

ProbeCard == {p \in Held : p.postcardId = current.public_id}

ProbePlace == {p \in Held : placeKey(p) = parsedKey(current)}

ProbeCity ==
  LET same == {p \in Held : srcKey(p) = folderKey /\ folderKey # <<>>
                              /\ cityKeyOf(p) = slugify(parsedOf(current).city)}
  IN  IF Cardinality(same) = 1 THEN same ELSE {}

FirstProbe ==
  IF ProbeId # {} THEN ProbeId
  ELSE IF ProbeCard # {} THEN ProbeCard
  ELSE IF ProbePlace # {} THEN ProbePlace
  ELSE ProbeCity

MatchIsFirstProbe ==
  IF FirstProbe = {} THEN lastStep(st').existing = NoPoint
  ELSE lastStep(st').existing \in FirstProbe

MatchFollowsProbeOrder == [][MatchStep => MatchIsFirstProbe]_vars

(***************************************************************************)
(* C20. As claimed: when a run that prunes has finished, its output holds  *)
(* no point without sourceFolder for whose normalized city the output      *)
(* holds another point, of the folder's provenance; with or without a      *)
(* postcardId on the point without sourceFolder.                           *)
(***************************************************************************)
Superseded(p, pts) ==
  \E q \in pts :
    /\ q.id # p.id
    /\ srcKey(q) = folderKey
    /\ cityKeyOf(q) = cityKeyOf(p)

LegacyDuplicatesDropped ==
  (Finished /\ pruneOf(args)) =>
    \A p \in Elems(out) :
      (srcKey(p) = <<>> /\ cityKeyOf(p) # <<>>) => ~Superseded(p, Elems(out))

(***************************************************************************)
(* C21. When a run has finished, its warnings hold a conflict warning for  *)
(* a normalized city key exactly when the parsed resources of the run gave *)
(* that key more than one country code (as parsed, aliases resolved), and  *)
(* at most one such warning per key; every resource was processed, and     *)
(* without pruning every point the run holds is in the output.             *)
(***************************************************************************)
CodesOfCity(k) ==
  {parsedOf(picked[n]).countryCode :
     n \in {m \in DOMAIN picked : Truthy(picked[m].public_id) /\ Parses(picked[m])
                                    /\ slugify(parsedOf(picked[m]).city) = k}}

ConflictWarningsFor(k) ==
  {n \in DOMAIN st.warnings : st.warnings[n].kind = "conflict" /\ st.warnings[n].key = k}

CityKeysSeen ==
  {slugify(parsedOf(picked[n]).city) :
     n \in {m \in DOMAIN picked : Truthy(picked[m].public_id) /\ Parses(picked[m])}}
  \cup {st.warnings[n].key : n \in {m \in DOMAIN st.warnings : st.warnings[m].kind = "conflict"}}

ConflictWarnedIffTwoCodes ==
  Finished =>
    /\ \A k \in CityKeysSeen :
         /\ (ConflictWarningsFor(k) # {}) <=> (Cardinality(CodesOfCity(k)) > 1)
         /\ Cardinality(ConflictWarningsFor(k)) <= 1
    /\ Len(st.trace) = Len(picked)
    /\ ~pruneOf(args) => Elems(out) = Elems(st.ix.byId)

\* A run without pruning has warned about paris, seen as FR and as DE, and its
\* output holds a point for each of the two resources.
ConflictWarnedWitness ==
  /\ Finished
  /\ ~pruneOf(args)
  /\ ConflictWarningsFor(<<"p","a","r","i","s">>) # {}
  /\ \E p, q \in Elems(out) : p.countryCode = FR /\ q.countryCode = DE

(***************************************************************************)
(* C22. A step of the loop makes no geocoder request for a resource whose  *)
(* matched point has numeric coordinates or whose key CC:city has a cache  *)
(* entry with numeric coordinates; after a request that succeeded the      *)
(* cache holds {lat, lng, city, countryCode} of the answer under that key; *)
(* and no step of a run changes or removes an entry with numeric           *)
(* coordinates, in the run's cache or in the cache file.                   *)
(***************************************************************************)
LoopStep ==
  /\ pc = "loop"
  /\ cursor <= Len(picked)
  /\ cursor' = cursor + 1
  /\ Len(st'.trace) = Len(st.trace) + 1

HasCoordinates(p) == p.lat.k = "num" /\ p.lng.k = "num"

ValidEntries(cache) == {k \in DOMAIN cache : HasCoordinates(cache[k])}

\* The geocoder was asked in this step: it answered, or a failure was recorded.
GeocoderAsked ==
  \/ lastStep(st').geocoded
  \/ /\ Len(st'.warnings) = Len(st.warnings) + 1
     /\ st'.warnings[Len(st'.warnings)].kind = "geocode"

EntriesKept(before, after) ==
  \A k \in ValidEntries(before) : k \in DOMAIN after /\ after[k] = before[k]

CacheStep ==
  LET e   == lastStep(st')
      key == normalizeKey(parsedOf(current).countryCode, parsedOf(current).city)
  IN  /\ (e.outcome \in {"noid", "unparsed"}) => ~GeocoderAsked
      /\ (e.outcome \notin {"noid", "unparsed"}) =>
           /\ (HasCoordinates(e.existing) \/ key \in ValidEntries(st.cache)) => ~GeocoderAsked
           /\ e.geocoded =>
                /\ key \in DOMAIN st'.cache
                /\ st'.cache[key] = [lat |-> GeocoderHit.lat, lng |-> GeocoderHit.lng,
                                     city |-> parsedOf(current).city,
                                     countryCode |-> parsedOf(current).countryCode]
      /\ EntriesKept(st.cache, st'.cache)

CacheConsultedAndKept ==
  [][/\ LoopStep => CacheStep
     /\ EntriesKept(cacheFile, cacheFile')]_vars

\* A run took the coordinates of Paris from the cache, asked the geocoder for
\* another place, and wrote both entries to the cache file.
CacheConsultedWitness ==
  /\ Finished
  /\ ~dryRunOf(args)
  /\ runs = 1
  /\ normalizeKey(FR, Paris) \in ValidEntries(cacheFile)
  /\ Cardinality(ValidEntries(cacheFile)) = 2
  /\ st.geocoded = 1
  /\ st.added = 2

(***************************************************************************)
(* C23. As claimed: a step of the loop that asks the geocoding service     *)
(* either gets a well-formed result and places the resource at its         *)
(* coordinates, or (error status, no result, malformed result) skips the   *)
(* resource, records a 'Geocode failed' warning for it, leaves the cache   *)
(* as it is, and goes on to the next resource.                             *)
(***************************************************************************)
AskStep ==
  /\ pc = "loop"
  /\ cursor <= Len(picked)
  /\ needsGeocode(st, current, noGeocode)
  /\ pc' # "killed"
  /\ cursor' # cursor \/ pc' # pc

WellFormed(response) ==
  /\ response.ok
  /\ response.kind = "array"
  /\ response.items # <<>>
  /\ response.items[1].lat.k = "num"
  /\ response.items[1].lon.k = "num"

PlacedAt(response) ==
  /\ cursor' = cursor + 1
  /\ pc' = "loop"
  /\ lastStep(st').outcome \in {"added", "updated"}
  /\ LET made == ByIdGet(st'.ix.byId, lastStep(st').id)
     IN  made.lat = response.items[1].lat /\ made.lng = response.items[1].lon

MissHandled ==
  /\ cursor' = cursor + 1
  /\ pc' = "loop"
  /\ Len(st'.trace) = Len(st.trace) + 1
  /\ lastStep(st').outcome = "skipped"
  /\ st'.skipped = st.skipped + 1
  /\ Len(st'.warnings) = Len(st.warnings) + 1
  /\ st'.warnings[Len(st'.warnings)].kind = "geocode"
  /\ st'.warnings[Len(st'.warnings)].publicId = current.public_id
  /\ st'.cache = st.cache
  /\ st'.ix = st.ix

GeocodeMissRecoverable ==
  [][AskStep => (MissHandled \/ \E response \in service : WellFormed(response) /\ PlacedAt(response))]_vars

(***************************************************************************)
(* C24. As claimed: between any two requests of a run to the geocoding     *)
(* service the delay elapses: every request but the last is followed by    *)
(* the sleep before the next request is made.                              *)
(***************************************************************************)
DelayBetweenRequests ==
  \A i \in DOMAIN st.net :
    (st.net[i] = "geocode" /\ i < Len(st.net)) => st.net[i + 1] = "sleep"

(***************************************************************************)
(* C25. As claimed: the images of the folder are processed whatever their  *)
(* tags: when a run has finished, every image of the folder that has an    *)
(* identifier, tagged hidden or not, was processed by it, and a run that   *)
(* prunes keeps every same-batch point whose postcardId is the identifier  *)
(* of an image of the folder.                                              *)
(***************************************************************************)
Processed(r) == \E n \in DOMAIN st.trace : st.trace[n].publicId = r.public_id

HiddenProcessedLikeAny ==
  Finished =>
    /\ \A r \in Elems(mediaHost) : Truthy(r.public_id) => Processed(r)
    /\ pruneOf(args) =>
         \A p \in Elems(points) :
           (srcKey(p) = folderKey /\ p.postcardId \in HostIds) => p.id \in PointIds(out)

(***************************************************************************)
(* C26. While a run is in its loop and when it has finished, added +       *)
(* updated + skipped is the number of resources processed so far that have *)
(* an identifier; each of them is counted once, in the counter of how its  *)
(* iteration ended; and geocoded is at most added + updated.               *)
(***************************************************************************)
Ended(outcomes) == Cardinality({n \in DOMAIN st.trace : st.trace[n].outcome \in outcomes})

WithIdentifier(k) == Cardinality({n \in 1..k : Truthy(picked[n].public_id)})

CountsConserved ==
  (pc = "loop" \/ Finished) =>
    /\ Len(st.trace) = cursor - 1
    /\ st.added + st.updated + st.skipped = WithIdentifier(cursor - 1)
    /\ st.added = Ended({"added"})
    /\ st.updated = Ended({"updated"})
    /\ st.skipped = Ended({"skipped", "unparsed"})
    /\ st.geocoded <= st.added + st.updated
    /\ Finished => cursor - 1 = Len(picked)

\* A run has finished on an image without identifier and an image it added.
CountsConservedWitness ==
  /\ Finished
  /\ Len(picked) = 2
  /\ ~Truthy(picked[1].public_id)
  /\ st.added = 1
  /\ st.geocoded = 1
  /\ st.skipped = 0

(***************************************************************************)
(* C27. As claimed: a step of the loop that adds a point for a resource    *)
(* that matched none gives it an id that no point the run holds has, and   *)
(* every point the run held is still held after the step.                  *)
(***************************************************************************)
AddStep ==
  /\ UnmatchedStep
  /\ Len(st'.trace) = Len(st.trace) + 1
  /\ lastStep(st').outcome = "added"

NewPointDisplacesNone ==
  [][AddStep =>
       /\ lastStep(st').id \notin PointIds(st.ix.byId)
       /\ Elems(st.ix.byId) \subseteq Elems(st'.ix.byId)]_vars

(***************************************************************************)
(* C28. As claimed: when a run that prunes has finished, every point       *)
(* without sourceFolder that the run held and the output lacks has a       *)
(* replacement in the output: a different point of the folder's provenance *)
(* for the same normalized city.                                           *)
(***************************************************************************)
DroppedLegacy == {p \in Elems(st.ix.byId) : srcKey(p) = <<>> /\ p \notin Elems(out)}

LegacyReplacementSurvives ==
  (Finished /\ pruneOf(args)) => \A p \in DroppedLegacy : Superseded(p, Elems(out))

(***************************************************************************)
(* C29. As claimed: when a run with a limit that prunes has finished on    *)
(* the folder Countries, the output holds every same-batch point whose     *)
(* postcardId is the identifier of an image the media host listed for the  *)
(* folder, be the image among the first N or beyond them.                  *)
(***************************************************************************)
Listed == Elems(fetchAll(args.folderArg, mediaHost))

LimitDoesNotPrune ==
  (Finished /\ pruneOf(args) /\ args.limit >= 0) =>
    \A p \in Elems(points) :
      (srcKey(p) = folderKey /\ \E r \in Listed : r.public_id = p.postcardId) =>
        p.id \in PointIds(out)

(***************************************************************************)
(* C30. As claimed: when a resource matches a point whose stored lat or    *)
(* lng is null, absent or no number, the iteration skips the resource, or  *)
(* stores the point with the coordinates of the cache entry of its place   *)
(* or with those the geocoder answered.                                    *)
(***************************************************************************)
AbsentCoordinates(p) == IsPoint(p) /\ ~HasCoordinates(p)

ResolvedElsewhere ==
  LET e    == lastStep(st')
      key  == normalizeKey(parsedOf(current).countryCode, parsedOf(current).city)
      made == ByIdGet(st'.ix.byId, e.id)
  IN  \/ e.outcome = "skipped"
      \/ /\ key \in ValidEntries(st.cache)
         /\ made.lat = st.cache[key].lat
         /\ made.lng = st.cache[key].lng
      \/ /\ e.geocoded
         /\ made.lat = GeocoderHit.lat
         /\ made.lng = GeocoderHit.lng

AbsentCoordinatesNeverZero ==
  [][(LoopStep /\ AbsentCoordinates(lastStep(st').existing)) => ResolvedElsewhere]_vars

====
